---- MODULE Spec2Model ----
(***************************************************************************)
(* The task manager of src/app/page.tsx: the Home component's React state  *)
(* (tasks, inputValue, filter, editingId, editingText), the localStorage   *)
(* slot "taskManager_tasks", the two effects (load on mount, save on every *)
(* change of tasks) and the event handlers.                                *)
(*                                                                         *)
(* A handler is one action: the handler body, the re-render React does for *)
(* the state it set, and the save effect that re-render triggers when the  *)
(* tasks array is a new one.  Strings are sequences of one-character       *)
(* strings, so that String.prototype.trim is computed, not assumed.        *)
(***************************************************************************)
EXTENDS Integers, Sequences, FiniteSets, TLC

\* Bounds of the model.
MaxTasks == 2
MaxClock == 2

VARIABLES
  tasks,        \* useState<Task[]>([])
  inputValue,   \* useState("")
  filter,       \* useState<FilterType>("all")
  editingId,    \* useState<number | null>(null)
  editingText,  \* useState("")
  storage,      \* localStorage's slot "taskManager_tasks"
  now,          \* the clock Date.now() and new Date() read, in milliseconds
  pc,           \* "mount": rendered, effects not yet run; "idle"; "crashed"
  last          \* the last operation, its id argument, and the list and the
                \* slot it started from

vars == <<tasks, inputValue, filter, editingId, editingText, storage, now, pc, last>>

----------------------------------------------------------------------------
\* Values

Null == 0 - 1

\* The texts a user types: the empty string, whitespace only, a plain word and
\* a word with whitespace on both sides.
Texts == { <<>>, <<" ">>, <<"a">>, <<" ", "b", " ">> }

FilterType == {"all", "active", "completed"}

\* Ids a caller may pass: those the clock can give, and 0, the id of a task
\* stored by an earlier session.
Ids == 0..MaxClock

\* String.prototype.trim
RECURSIVE TrimStart(_)
TrimStart(s) == IF s # <<>> /\ Head(s) = " " THEN TrimStart(Tail(s)) ELSE s

RECURSIVE TrimEnd(_)
TrimEnd(s) ==
  IF s # <<>> /\ s[Len(s)] = " " THEN TrimEnd(SubSeq(s, 1, Len(s) - 1)) ELSE s

Trim(s) == TrimEnd(TrimStart(s))

\* A createdAt value is a Date in memory (ok: it holds a time value, ms; an
\* Invalid Date holds none) and a string or null in the stored JSON (ok: the
\* string is an ISO timestamp of ms).
DateOf(ms) == [type |-> "Date", ok |-> TRUE, ms |-> ms]
InvalidDate == [type |-> "Date", ok |-> FALSE, ms |-> 0]
IsoString(ms) == [type |-> "string", ok |-> TRUE, ms |-> ms]
JunkString == [type |-> "string", ok |-> FALSE, ms |-> 0]
JsonNull == [type |-> "null", ok |-> FALSE, ms |-> 0]

\* What JSON.stringify writes for a createdAt value: Date.prototype.toJSON
\* gives toISOString() for a valid Date and null for an Invalid Date; a string
\* or null is written as it is.
ToJSON(v) ==
  IF v.type = "Date"
    THEN (IF v.ok THEN IsoString(v.ms) ELSE JsonNull)
    ELSE v

\* new Date(value): an ISO string gives its time, any other string an Invalid
\* Date, null the epoch (ToNumber(null) = 0) and a Date a copy.
NewDate(v) ==
  CASE v.type = "Date" -> v
    [] v.type = "null" -> DateOf(0)
    [] OTHER -> IF v.ok THEN DateOf(v.ms) ELSE InvalidDate

----------------------------------------------------------------------------
\* The slot

Absent == [kind |-> "absent", items |-> <<>>]
EmptyValue == [kind |-> "empty", items |-> <<>>]       \* the string ""
Unparseable == [kind |-> "unparseable", items |-> <<>>] \* JSON.parse throws
NotAList == [kind |-> "notalist", items |-> <<>>]      \* JSON such as null: .map throws
StoredArray(items) == [kind |-> "array", items |-> items]

StringifyTask(t) == [t EXCEPT !.createdAt = ToJSON(t.createdAt)]

JSONStringify(ts) == StoredArray([i \in 1..Len(ts) |-> StringifyTask(ts[i])])

\* Variant: the stored task taken as it is, createdAt left a string.
ReviveTaskKeepsString(o) == o

\* {...task, createdAt: new Date(task.createdAt)}

ReviveTask(o) == [o EXCEPT !.createdAt = NewDate(o.createdAt)]

StoredTask(id, text, completed, createdAt) ==
  [id |-> id, text |-> text, completed |-> completed, createdAt |-> createdAt]

\* What the slot may hold before the first start.
InitialSlots ==
  { Absent, EmptyValue, Unparseable, NotAList, StoredArray(<<>>),
    StoredArray(<<StoredTask(0, <<"a">>, TRUE, IsoString(0))>>),
    StoredArray(<<StoredTask(0, <<"a">>, FALSE, JunkString)>>) }

----------------------------------------------------------------------------
\* The effects

\* Variant: the load effect without its try/catch.
LoadEffectNoCatch(saved) ==
  IF saved.kind \in {"absent", "empty"}
    THEN [called |-> FALSE, tasks |-> <<>>, logged |-> FALSE, escaped |-> FALSE]
    ELSE IF saved.kind \in {"unparseable", "notalist"}
      THEN [called |-> FALSE, tasks |-> <<>>, logged |-> FALSE, escaped |-> TRUE]
      ELSE [called |-> TRUE,
            tasks |-> [i \in 1..Len(saved.items) |-> ReviveTask(saved.items[i])],
            logged |-> FALSE, escaped |-> FALSE]

\* The load effect.  A null or empty value skips the branch; JSON.parse or
\* .map throwing is caught and reported with console.error; otherwise
\* setTasks is called with the revived tasks.  called: setTasks was called,
\* with tasks; logged: console.error was called; escaped: an exception left
\* the effect.
LoadEffect(saved) ==
  IF saved.kind \in {"absent", "empty"}
    THEN [called |-> FALSE, tasks |-> <<>>, logged |-> FALSE, escaped |-> FALSE]
    ELSE IF saved.kind \in {"unparseable", "notalist"}
      THEN [called |-> FALSE, tasks |-> <<>>, logged |-> TRUE, escaped |-> FALSE]
      ELSE [called |-> TRUE,
            tasks |-> [i \in 1..Len(saved.items) |-> ReviveTask(saved.items[i])],
            logged |-> FALSE, escaped |-> FALSE]

\* Variant: the save effect without the length test.
SaveEffectAlways(ts, slot) == JSONStringify(ts)

\* Variant: the save effect never writing.
SaveEffectNever(ts, slot) == slot

\* The save effect: the slot after it has run with tasks = ts.
SaveEffect(ts, slot) == IF Len(ts) > 0 THEN JSONStringify(ts) ELSE slot

----------------------------------------------------------------------------
\* The state updaters and derived values

\* Variant: the text stored as typed.
NewTaskUntrimmed(text, idMs, createdMs) ==
  [id |-> idMs, text |-> text, completed |-> FALSE, createdAt |-> DateOf(createdMs)]

NewTask(text, idMs, createdMs) ==
  [id |-> idMs, text |-> Trim(text), completed |-> FALSE, createdAt |-> DateOf(createdMs)]

\* Variant: the new task put first.
AddUpdaterPrepends(prev, newTask) == <<newTask>> \o prev

AddUpdater(prev, newTask) == Append(prev, newTask)

\* Variant: completed set rather than negated.
ToggleUpdaterSetsTrue(prev, id) ==
  [i \in 1..Len(prev) |->
     IF prev[i].id = id THEN [prev[i] EXCEPT !.completed = TRUE] ELSE prev[i]]

ToggleUpdater(prev, id) ==
  [i \in 1..Len(prev) |->
     IF prev[i].id = id THEN [prev[i] EXCEPT !.completed = ~prev[i].completed]
                        ELSE prev[i]]

DeleteFilter(prev, id) == SelectSeq(prev, LAMBDA t : t.id # id)

\* Variant: the text set in every task, whatever its id.
SaveEditUpdaterAll(prev, id, text) ==
  [i \in 1..Len(prev) |-> [prev[i] EXCEPT !.text = Trim(text)]]

\* Variant: the text stored as typed.
SaveEditUpdaterUntrimmed(prev, id, text) ==
  [i \in 1..Len(prev) |->
     IF prev[i].id = id THEN [prev[i] EXCEPT !.text = text] ELSE prev[i]]

SaveEditUpdater(prev, id, text) ==
  [i \in 1..Len(prev) |->
     IF prev[i].id = id THEN [prev[i] EXCEPT !.text = Trim(text)] ELSE prev[i]]

\* Variant: the active filter letting every task through.
filteredTasksActiveShowsAll(ts, f) ==
  SelectSeq(ts, LAMBDA t : IF f = "completed" THEN t.completed ELSE TRUE)

filteredTasks(ts, f) ==
  SelectSeq(ts, LAMBDA t : IF f = "active" THEN ~t.completed
                           ELSE IF f = "completed" THEN t.completed
                           ELSE TRUE)

\* Variant: the active count taking every task.
activeCountCountsAll(ts) == Len(SelectSeq(ts, LAMBDA t : TRUE))

activeCount(ts) == Len(SelectSeq(ts, LAMBDA t : ~t.completed))

completedCount(ts) == Len(SelectSeq(ts, LAMBDA t : t.completed))

\* Total: {tasks.length}
total(ts) == Len(ts)

----------------------------------------------------------------------------
\* The operations

Snapshot(op, id) ==
  [op |-> op, id |-> id, tasks |-> tasks, storage |-> storage]

Init ==
  /\ tasks = <<>>
  /\ inputValue = <<>>
  /\ filter = "all"
  /\ editingId = Null
  /\ editingText = <<>>
  /\ storage \in InitialSlots
  /\ now = 1
  /\ pc = "mount"
  /\ last = [op |-> "Init", id |-> Null, tasks |-> <<>>, storage |-> storage]

\* The first commit: the load effect, the save effect with the initial empty
\* list, and, when the load effect set the list, the re-render and the save
\* effect again.
Mount ==
  /\ pc = "mount"
  /\ LET r == LoadEffect(storage)
         s1 == SaveEffect(tasks, storage)
     IN /\ tasks' = IF r.called THEN r.tasks ELSE tasks
        /\ storage' = IF r.called THEN SaveEffect(r.tasks, s1) ELSE s1
        /\ pc' = IF r.escaped THEN "crashed" ELSE "idle"
  /\ last' = IF last.op = "Reload" THEN [last EXCEPT !.op = "Remount"]
                                   ELSE Snapshot("Mount", Null)
  /\ UNCHANGED <<inputValue, filter, editingId, editingText, now>>

\* The page is loaded again: the component state starts over, the slot stays.
Reload ==
  /\ pc # "mount"
  /\ tasks' = <<>>
  /\ inputValue' = <<>>
  /\ filter' = "all"
  /\ editingId' = Null
  /\ editingText' = <<>>
  /\ pc' = "mount"
  /\ last' = Snapshot("Reload", Null)
  /\ UNCHANGED <<storage, now>>

\* A millisecond passes.
Tick ==
  /\ now < MaxClock
  /\ now' = now + 1
  /\ last' = IF pc = "mount" THEN last ELSE Snapshot("Tick", Null)
  /\ UNCHANGED <<tasks, inputValue, filter, editingId, editingText, storage, pc>>

setInputValue(v) ==
  /\ pc = "idle"
  /\ inputValue' = v
  /\ last' = Snapshot("setInputValue", Null)
  /\ UNCHANGED <<tasks, filter, editingId, editingText, storage, now, pc>>

setFilter(f) ==
  /\ pc = "idle"
  /\ filter' = f
  /\ last' = Snapshot("setFilter", Null)
  /\ UNCHANGED <<tasks, inputValue, editingId, editingText, storage, now, pc>>

setEditingText(v) ==
  /\ pc = "idle"
  /\ editingId # Null
  /\ editingText' = v
  /\ last' = Snapshot("setEditingText", Null)
  /\ UNCHANGED <<tasks, inputValue, filter, editingId, storage, now, pc>>

\* Date.now() and new Date() are two reads of the clock: a millisecond may
\* pass between them.  The list is bounded by MaxTasks.
addTask ==
  /\ pc = "idle"
  /\ last' = Snapshot("addTask", Null)
  /\ IF Trim(inputValue) = <<>>
       THEN UNCHANGED <<tasks, inputValue, storage, now>>
       ELSE /\ Len(tasks) < MaxTasks
            /\ \E created \in {now, IF now < MaxClock THEN now + 1 ELSE now} :
                 /\ tasks' = AddUpdater(tasks, NewTask(inputValue, now, created))
                 /\ now' = created
            /\ inputValue' = <<>>
            /\ storage' = SaveEffect(tasks', storage)
  /\ UNCHANGED <<filter, editingId, editingText, pc>>

toggleTask(id) ==
  /\ pc = "idle"
  /\ tasks' = ToggleUpdater(tasks, id)
  /\ storage' = SaveEffect(tasks', storage)
  /\ last' = Snapshot("toggleTask", id)
  /\ UNCHANGED <<inputValue, filter, editingId, editingText, now, pc>>

\* Variant: deleteTask without the removeItem of lines 77-79.
deleteTaskNoRemove(id) ==
  /\ pc = "idle"
  /\ tasks' = DeleteFilter(tasks, id)
  /\ storage' = SaveEffect(tasks', storage)
  /\ last' = Snapshot("deleteTask", id)
  /\ UNCHANGED <<inputValue, filter, editingId, editingText, now, pc>>

\* The updater removes the slot when the filtered list is empty; the save
\* effect follows.
deleteTask(id) ==
  /\ pc = "idle"
  /\ LET newTasks == DeleteFilter(tasks, id)
         removed == IF Len(newTasks) = 0 THEN Absent ELSE storage
     IN /\ tasks' = newTasks
        /\ storage' = SaveEffect(newTasks, removed)
  /\ last' = Snapshot("deleteTask", id)
  /\ UNCHANGED <<inputValue, filter, editingId, editingText, now, pc>>

\* Variant: clearAllTasks without the removeItem of line 87.
clearAllTasksNoRemove ==
  /\ pc = "idle"
  /\ tasks' = <<>>
  /\ storage' = SaveEffect(tasks', storage)
  /\ last' = Snapshot("clearAllTasks", Null)
  /\ UNCHANGED <<inputValue, filter, editingId, editingText, now, pc>>

clearAllTasks ==
  /\ pc = "idle"
  /\ tasks' = <<>>
  /\ storage' = SaveEffect(tasks', Absent)
  /\ last' = Snapshot("clearAllTasks", Null)
  /\ UNCHANGED <<inputValue, filter, editingId, editingText, now, pc>>

startEditing(id, text) ==
  /\ pc = "idle"
  /\ editingId' = id
  /\ editingText' = text
  /\ last' = Snapshot("startEditing", id)
  /\ UNCHANGED <<tasks, inputValue, filter, storage, now, pc>>

\* Variant: saveEdit leaving the edit session open.
saveEditStaysOpen(id) ==
  /\ pc = "idle"
  /\ last' = Snapshot("saveEdit", id)
  /\ IF Trim(editingText) = <<>>
       THEN UNCHANGED <<tasks, storage>>
       ELSE /\ tasks' = SaveEditUpdater(tasks, id, editingText)
            /\ storage' = SaveEffect(tasks', storage)
  /\ UNCHANGED <<inputValue, filter, editingId, editingText, now, pc>>

\* Variant: saveEdit without the empty-text return of line 98.
saveEditNoGuard(id) ==
  /\ pc = "idle"
  /\ last' = Snapshot("saveEdit", id)
  /\ tasks' = SaveEditUpdater(tasks, id, editingText)
  /\ storage' = SaveEffect(tasks', storage)
  /\ editingId' = Null
  /\ editingText' = <<>>
  /\ UNCHANGED <<inputValue, filter, now, pc>>

saveEdit(id) ==
  /\ pc = "idle"
  /\ last' = Snapshot("saveEdit", id)
  /\ IF Trim(editingText) = <<>>
       THEN UNCHANGED <<tasks, storage, editingId, editingText>>
       ELSE /\ tasks' = SaveEditUpdater(tasks, id, editingText)
            /\ storage' = SaveEffect(tasks', storage)
            /\ editingId' = Null
            /\ editingText' = <<>>
  /\ UNCHANGED <<inputValue, filter, now, pc>>

cancelEdit ==
  /\ pc = "idle"
  /\ editingId' = Null
  /\ editingText' = <<>>
  /\ last' = Snapshot("cancelEdit", Null)
  /\ UNCHANGED <<tasks, inputValue, filter, storage, now, pc>>

Next ==
  \/ Mount
  \/ Reload
  \/ Tick
  \/ \E v \in Texts : setInputValue(v)
  \/ \E f \in FilterType : setFilter(f)
  \/ \E v \in Texts : setEditingText(v)
  \/ addTask
  \/ \E id \in Ids : toggleTask(id)
  \/ \E id \in Ids : deleteTask(id)
  \/ clearAllTasks
  \/ \E id \in Ids, text \in Texts : startEditing(id, text)
  \/ \E id \in Ids : saveEdit(id)
  \/ cancelEdit

Spec == Init /\ [][Next]_vars

\* The handlers as the rendered page offers them. A row is rendered for each
\* task of filteredTasks; the row whose id is editingId shows the edit input
\* with Save and Cancel, every other row shows Edit and Delete; Clear All is
\* rendered while the list is not empty.
Rows == filteredTasks(tasks, filter)

CheckboxChange == \E i \in 1..Len(Rows) : toggleTask(Rows[i].id)

EditInputChange ==
  \E i \in 1..Len(Rows) : Rows[i].id = editingId /\ \E v \in Texts : setEditingText(v)

SaveClick == \E i \in 1..Len(Rows) : Rows[i].id = editingId /\ saveEdit(Rows[i].id)

CancelClick == \E i \in 1..Len(Rows) : Rows[i].id = editingId /\ cancelEdit

EditClick ==
  \E i \in 1..Len(Rows) : Rows[i].id # editingId /\ startEditing(Rows[i].id, Rows[i].text)

DeleteClick == \E i \in 1..Len(Rows) : Rows[i].id # editingId /\ deleteTask(Rows[i].id)

ClearAllClick == Len(tasks) > 0 /\ clearAllTasks

NextUI ==
  \/ Mount
  \/ Reload
  \/ Tick
  \/ \E v \in Texts : setInputValue(v)
  \/ \E f \in FilterType : setFilter(f)
  \/ addTask
  \/ CheckboxChange
  \/ EditInputChange
  \/ SaveClick
  \/ CancelClick
  \/ EditClick
  \/ DeleteClick
  \/ ClearAllClick

SpecUI == Init /\ [][NextUI]_vars

\* The program started with nothing stored.
InitAbsent == Init /\ storage = Absent

SpecFromAbsent == InitAbsent /\ [][Next]_vars

----------------------------------------------------------------------------
\* Persistence

\* C1: when deleteTask removes the last remaining task(s), the slot is absent
\* once the handler and the save effect it triggers are done: it neither holds
\* an encoded empty list nor the old encoding.
C1_DeleteToEmptyClearsSlot ==
  (last.op = "deleteTask" /\ last.tasks # <<>> /\ tasks = <<>>) => storage = Absent

C1_Witness ==
  /\ last.op = "deleteTask"
  /\ Len(last.tasks) = 1
  /\ last.storage = JSONStringify(last.tasks)
  /\ tasks = <<>>
  /\ storage = Absent

\* C2: after clearAllTasks, from any list, filter and edit session, the list is
\* empty and the slot absent; the save effect of the same operation does not
\* write the slot again.
C2_ClearAllEmptiesListAndSlot ==
  last.op = "clearAllTasks" => (tasks = <<>> /\ storage = Absent)

C2_Witness ==
  /\ last.op = "clearAllTasks"
  /\ Len(last.tasks) = 2
  /\ last.storage = JSONStringify(last.tasks)
  /\ editingId # Null
  /\ filter # "all"
  /\ tasks = <<>>
  /\ storage = Absent

\* C3: in every quiescent state with a non-empty list, the slot is present and
\* holds the serialization of exactly the current list: the same number of
\* tasks in the same order, each with the task's id, text and completed and
\* the JSON form of its createdAt.
C3_WriteBack ==
  (pc = "idle" /\ tasks # <<>>) =>
    /\ storage.kind = "array"
    /\ Len(storage.items) = Len(tasks)
    /\ \A i \in 1..Len(tasks) :
         /\ storage.items[i].id = tasks[i].id
         /\ storage.items[i].text = tasks[i].text
         /\ storage.items[i].completed = tasks[i].completed
         /\ storage.items[i].createdAt = ToJSON(tasks[i].createdAt)

C3_Witness ==
  /\ pc = "idle"
  /\ last.op = "saveEdit"
  /\ Len(tasks) = 2
  /\ tasks # last.tasks
  /\ tasks[1].completed # tasks[2].completed
  /\ storage # last.storage
  /\ storage = JSONStringify(tasks)

\* C4: the program never writes an encoded empty list.  After every operation
\* the slot is absent, or is what it was before the operation, or is the
\* encoding of the current, non-empty list; so along a run it is absent, the
\* value from before startup, or the encoding of a non-empty list.
C4_NeverWritesEmptyList ==
  \/ storage = Absent
  \/ storage = last.storage
  \/ (tasks # <<>> /\ storage.items # <<>> /\ storage = JSONStringify(tasks))

C4_Witness ==
  /\ last.op = "toggleTask"
  /\ tasks = <<>>
  /\ storage = StoredArray(<<>>)

AllDatesValid(ts) == \A i \in 1..Len(ts) : ts[i].createdAt.ok

C6_MalformedLoadsEmpty ==
  (last.op \in {"Mount", "Remount"}
     /\ last.storage.kind \in {"unparseable", "notalist", "empty", "absent"}) =>
    /\ pc = "idle"
    /\ tasks = <<>>
    /\ inputValue = <<>>
    /\ editingId = Null
    /\ editingText = <<>>
    /\ ENABLED (\E v \in Texts : setInputValue(v))
    /\ ENABLED addTask
    /\ ENABLED (\E id \in Ids : toggleTask(id))
    /\ ENABLED (\E id \in Ids : deleteTask(id))
    /\ ENABLED clearAllTasks
    /\ ENABLED (\E id \in Ids, text \in Texts : startEditing(id, text))
    /\ ENABLED (\E id \in Ids : saveEdit(id))
    /\ ENABLED cancelEdit

C6_Witness ==
  /\ last.op = "Mount"
  /\ last.storage = Unparseable
  /\ pc = "idle"
  /\ tasks = <<>>
  /\ storage = Unparseable

----------------------------------------------------------------------------
\* The list operations

\* C7: addTask with an input whose trimmed text is not empty leaves the old
\* tasks in place, fields and positions, and appends exactly one task, whose
\* text is the trimmed input and whose completed is false.
C7_AddAppendsOne ==
  [][(last'.op = "addTask" /\ pc = "idle" /\ Trim(inputValue) # <<>>) =>
       /\ Len(tasks') = Len(tasks) + 1
       /\ SubSeq(tasks', 1, Len(tasks)) = tasks
       /\ tasks'[Len(tasks')].text = Trim(inputValue)
       /\ tasks'[Len(tasks')].completed = FALSE]_vars

C7_Witness ==
  /\ last.op = "addTask"
  /\ Len(last.tasks) = 1
  /\ Len(tasks) = 2
  /\ tasks[1] = last.tasks[1]
  /\ tasks[2].text = <<"b">>
  /\ tasks[2].completed = FALSE

\* C8: addTask with an empty or whitespace-only input, and saveEdit with an
\* empty or whitespace-only editingText, change nothing: the list, the slot
\* and the edit session stay, and the component stays idle.
C8_RejectionIsNoOp ==
  [][(pc = "idle" /\ (\/ (last'.op = "addTask" /\ Trim(inputValue) = <<>>)
                      \/ (last'.op = "saveEdit" /\ Trim(editingText) = <<>>))) =>
       UNCHANGED <<tasks, storage, editingId, editingText, pc>>]_vars

C8_Witness ==
  /\ last.op = "saveEdit"
  /\ editingId # Null
  /\ editingText = <<" ">>
  /\ tasks # <<>>
  /\ tasks = last.tasks
  /\ storage = last.storage

\* C9: one toggleTask(id) flips completed of the tasks matching id and leaves
\* their other fields, every other task, the length and the order as they
\* were; a toggleTask(id) directly after a toggleTask(id) gives back the list
\* from before the first.
C9_TogglePairing ==
  [][/\ (last'.op = "toggleTask" /\ pc = "idle") =>
          /\ Len(tasks') = Len(tasks)
          /\ \A i \in 1..Len(tasks) :
               /\ tasks'[i].id = tasks[i].id
               /\ tasks'[i].text = tasks[i].text
               /\ tasks'[i].createdAt = tasks[i].createdAt
               /\ tasks'[i].completed =
                    (IF tasks[i].id = last'.id THEN ~tasks[i].completed
                                               ELSE tasks[i].completed)
     /\ (last.op = "toggleTask" /\ last'.op = "toggleTask" /\ last'.id = last.id) =>
          tasks' = last.tasks]_vars

C9_Witness ==
  /\ last.op = "toggleTask"
  /\ Len(tasks) = 2
  /\ tasks[1].id = last.id
  /\ tasks[2].id # last.id
  /\ tasks[1].completed # last.tasks[1].completed
  /\ tasks[2] = last.tasks[2]

----------------------------------------------------------------------------
\* The views

Range(s) == {s[i] : i \in 1..Len(s)}

\* s holds elements of t in the order t holds them.
RECURSIVE IsSubsequence(_, _)
IsSubsequence(s, t) ==
  IF s = <<>> THEN TRUE
  ELSE IF t = <<>> THEN FALSE
  ELSE IF Head(s) = Head(t) THEN IsSubsequence(Tail(s), Tail(t))
  ELSE IsSubsequence(s, Tail(t))

\* C10: the active and the completed view have no task in common, every task
\* of the all view is in exactly one of them, each view keeps the order of the
\* list, and the all view is the list.
C10_FilterPartition ==
  LET active == filteredTasks(tasks, "active")
      completed == filteredTasks(tasks, "completed")
      all == filteredTasks(tasks, "all")
  IN /\ all = tasks
     /\ Range(active) \cap Range(completed) = {}
     /\ Len(active) + Len(completed) = Len(all)
     /\ \A i \in 1..Len(all) :
          (all[i] \in Range(active)) # (all[i] \in Range(completed))
     /\ IsSubsequence(active, tasks)
     /\ IsSubsequence(completed, tasks)
     /\ filteredTasks(tasks, filter) \in {active, completed, all}

C10_Witness ==
  /\ Len(tasks) = 2
  /\ filter = "completed"
  /\ Len(filteredTasks(tasks, "active")) = 1
  /\ Len(filteredTasks(tasks, filter)) = 1
  /\ filteredTasks(tasks, "active") # filteredTasks(tasks, filter)

----------------------------------------------------------------------------
\* The counts and the edit session

\* C11: total is the length of the list, activeCount the number of tasks with
\* completed false, completedCount the number with completed true, and
\* activeCount + completedCount = total.
C11_CountsConsistent ==
  /\ total(tasks) = Len(tasks)
  /\ activeCount(tasks) = Cardinality({i \in 1..Len(tasks) : tasks[i].completed = FALSE})
  /\ completedCount(tasks) = Cardinality({i \in 1..Len(tasks) : tasks[i].completed = TRUE})
  /\ activeCount(tasks) + completedCount(tasks) = total(tasks)

C11_Witness ==
  /\ last.op = "toggleTask"
  /\ total(tasks) = 2
  /\ activeCount(tasks) = 1
  /\ completedCount(tasks) = 1
  /\ activeCount(last.tasks) = 2

\* C12: saveEdit(id) with a non-empty trimmed editingText sets the text of the
\* tasks matching id to the trimmed editingText, leaves their id, completed,
\* createdAt and position and every other task as they were, and ends with
\* editingId null and editingText empty.
C12_SaveEditCommitsAndCloses ==
  [][(last'.op = "saveEdit" /\ pc = "idle" /\ Trim(editingText) # <<>>) =>
       /\ Len(tasks') = Len(tasks)
       /\ \A i \in 1..Len(tasks) :
            /\ tasks'[i].id = tasks[i].id
            /\ tasks'[i].completed = tasks[i].completed
            /\ tasks'[i].createdAt = tasks[i].createdAt
            /\ tasks'[i].text =
                 (IF tasks[i].id = last'.id THEN Trim(editingText) ELSE tasks[i].text)
       /\ editingId' = Null
       /\ editingText' = <<>>]_vars

C12_Witness ==
  /\ last.op = "saveEdit"
  /\ Len(tasks) = 2
  /\ last.tasks[1].id = last.id
  /\ last.tasks[2].id # last.id
  /\ last.tasks[1].text = <<"a">>
  /\ tasks[1].text = <<"b">>
  /\ tasks[2] = last.tasks[2]
  /\ editingId = Null
  /\ editingText = <<>>

\* The step of C13 that commits an unedited session: saveEdit(id) directly
\* after startEditing(id, t), t being the text of a task with that id.
SaveDirectlyAfterStart ==
  /\ pc = "idle"
  /\ last.op = "startEditing"
  /\ last'.op = "saveEdit"
  /\ last'.id = last.id
  /\ editingId = last.id
  /\ \E i \in 1..Len(tasks) : tasks[i].id = editingId /\ tasks[i].text = editingText

\* C13: startEditing(id, t) with t the task's current text, followed directly
\* by saveEdit(id), leaves the task list unchanged and closes the edit
\* session; startEditing followed by any changes of editingText and then
\* cancelEdit leaves the task list and the slot unchanged and closes the edit
\* session.
C13_EditRoundTrip ==
  [][/\ SaveDirectlyAfterStart =>
          (tasks' = tasks /\ editingId' = Null /\ editingText' = <<>>)
     /\ (pc = "idle" /\ last'.op \in {"startEditing", "setEditingText", "cancelEdit"}) =>
          UNCHANGED <<tasks, storage>>
     /\ (pc = "idle" /\ last'.op = "cancelEdit") =>
          (editingId' = Null /\ editingText' = <<>>)]_vars

\* A step of toggleTask, deleteTask or saveEdit whose id matches no task.
LookupMiss ==
  /\ pc = "idle"
  /\ last'.op \in {"toggleTask", "deleteTask", "saveEdit"}
  /\ \A i \in 1..Len(tasks) : tasks[i].id # last'.id

\* C14 as stated: toggleTask(id), deleteTask(id) and saveEdit(id) with an id
\* that matches no task leave the list, the slot and the edit session
\* (editingId, editingText) unchanged.
C14_LookupMissIsNoOp ==
  [][LookupMiss => UNCHANGED <<tasks, storage, editingId, editingText>>]_vars

\* C14, amended: with an id that matches no task the three handlers leave the
\* list unchanged; toggleTask leaves the slot and the edit session unchanged;
\* deleteTask leaves the edit session unchanged and the slot unchanged unless
\* the list is empty, when it removes the slot; saveEdit leaves the slot
\* unchanged and the edit session unchanged when the trimmed editingText is
\* empty, and otherwise closes the edit session.
C14_LookupMissKeepsList ==
  [][LookupMiss =>
       /\ tasks' = tasks
       /\ last'.op = "toggleTask" => UNCHANGED <<storage, editingId, editingText>>
       /\ last'.op = "deleteTask" =>
            /\ UNCHANGED <<editingId, editingText>>
            /\ storage' = (IF tasks = <<>> THEN Absent ELSE storage)
       /\ last'.op = "saveEdit" =>
            /\ storage' = storage
            /\ IF Trim(editingText) = <<>>
                 THEN UNCHANGED <<editingId, editingText>>
                 ELSE editingId' = Null /\ editingText' = <<>>]_vars

C14_Witness ==
  /\ last.op = "saveEdit"
  /\ last.tasks # <<>>
  /\ \A i \in 1..Len(last.tasks) : last.tasks[i].id # last.id
  /\ tasks = last.tasks
  /\ storage = last.storage
  /\ editingId = Null

----------------------------------------------------------------------------
\* What holds of every list

IdsUnique(ts) == \A i, j \in 1..Len(ts) : ts[i].id = ts[j].id => i = j

\* C15: in every state reached from an absent slot, no two tasks of the list
\* have the same id, the clock of addTask never going backwards but not
\* having to advance between two calls.
C15_IdsUnique == IdsUnique(tasks)

\* C16: in every state reached from an absent slot, or from a slot whose tasks
\* all have a non-empty trimmed text, every task's text is non-empty and is
\* its own trimmed form.
C16_TextsTrimmedNonEmpty ==
  \A i \in 1..Len(tasks) : tasks[i].text # <<>> /\ Trim(tasks[i].text) = tasks[i].text

C16_Witness ==
  /\ last.op = "saveEdit"
  /\ Len(tasks) = 2
  /\ last.tasks[2].text = <<"a">>
  /\ tasks[2].text = <<"b">>
  /\ tasks[1].text = <<"a">>

\* C17: no operation reorders the list. toggleTask and saveEdit keep its
\* length and every task's position, id and createdAt; deleteTask and
\* clearAllTasks leave what remains in its order with all fields; addTask only
\* appends at the end; the other handlers leave the list as it is. The order
\* of two tasks present in two states of a run is therefore the same in both.
C17_OrderStable ==
  /\ last.op \in {"toggleTask", "saveEdit"} =>
       /\ Len(tasks) = Len(last.tasks)
       /\ \A i \in 1..Len(tasks) :
            /\ tasks[i].id = last.tasks[i].id
            /\ tasks[i].createdAt = last.tasks[i].createdAt
  /\ last.op \in {"deleteTask", "clearAllTasks"} =>
       /\ Len(tasks) <= Len(last.tasks)
       /\ IsSubsequence(tasks, last.tasks)
  /\ last.op = "addTask" =>
       /\ Len(tasks) \in {Len(last.tasks), Len(last.tasks) + 1}
       /\ SubSeq(tasks, 1, Len(last.tasks)) = last.tasks
  /\ last.op \in {"Tick", "setInputValue", "setFilter", "setEditingText",
                  "startEditing", "cancelEdit"} =>
       tasks = last.tasks

C17_Witness ==
  /\ last.op = "deleteTask"
  /\ Len(last.tasks) = 2
  /\ last.tasks[1].id = last.id
  /\ last.tasks[2].id # last.id
  /\ tasks = <<last.tasks[2]>>

----------------------------------------------------------------------------
\* The rendered page and the startup

\* C18: with the handlers called only as the rendered page offers them, an
\* editingId that is not null is the id of a task of the list.
C18_EditTargetsLiveTask ==
  editingId # Null => \E i \in 1..Len(tasks) : tasks[i].id = editingId

\* The slot holds nothing that loads as a task: it is absent, or holds the
\* empty string, a value whose decoding fails, or the encoding of an empty list.
HoldsNoTask(slot) ==
  \/ slot = Absent
  \/ slot \in {EmptyValue, Unparseable, NotAList}
  \/ slot = StoredArray(<<>>)

\* C19 as stated: in every quiescent state after the startup load, whatever
\* the slot held at startup, the list is empty exactly when the slot is absent.
C19_EmptyIffAbsent ==
  pc = "idle" => ((tasks = <<>>) <=> (storage = Absent))

\* C19, amended: in every quiescent state after the startup load the list is
\* empty exactly when the slot is absent or still holds the value from before
\* startup that loaded as an empty list; an absent slot goes with an empty
\* list, a non-empty list with a slot that holds it.
C19_EmptyIffNoStoredTask ==
  pc = "idle" =>
    /\ (tasks = <<>>) <=> HoldsNoTask(storage)
    /\ storage = Absent => tasks = <<>>
    /\ tasks # <<>> => storage = JSONStringify(tasks)

C19_Witness ==
  /\ pc = "idle"
  /\ last.op = "Mount"
  /\ last.storage = StoredArray(<<>>)
  /\ tasks = <<>>
  /\ storage = StoredArray(<<>>)

====
